---- MODULE Spec2Model ----
(***************************************************************************)
(* Model of evaluate.py: a sequential benchmark driver.  main loads the    *)
(* dataset, then for every configured model evaluate_model walks the rows, *)
(* reads the candidate file, runs it in a node subprocess and feeds the    *)
(* captured stderr to EvaluationResult.update_counts; print_summary then   *)
(* reports the counters.                                                   *)
(*                                                                         *)
(* Text is modelled as sequences of one-character strings.                 *)
(***************************************************************************)
EXTENDS Integers, Sequences, FiniteSets, TLC

\* ------------------------------------------------------------------ bounds
MaxModels == 2     \* longest LLM_MODELS list explored
MaxRows   == 2     \* longest dataset explored

\* ------------------------------------------------------------ environment
ModelNames == {"m1", "m2"}

\* task identifiers as they may appear in the dataset
TaskIds == { <<"H", "/", "0">>, <<"H", "-", "1">> }

\* the literal searched for by update_counts
AssertionFailed ==
    <<"A","s","s","e","r","t","i","o","n"," ","f","a","i","l","e","d">>

\* beginnings and endings from which the stderr texts of the interpreter are
\* assembled: the literal whole, at the start, at the end and in the middle of
\* a text, with a lower-case initial, and cut in half
Heads ==
    { << >>,
      SubSeq(AssertionFailed, 1, 9),                            \* "Assertion"
      <<"a">> \o SubSeq(AssertionFailed, 2, 9),                 \* "assertion"
      <<"x", " ">> \o SubSeq(AssertionFailed, 1, 9) }           \* "x Assertion"

Tails ==
    { << >>,
      SubSeq(AssertionFailed, 10, 16),                          \* " failed"
      SubSeq(AssertionFailed, 10, 16) \o <<":", " ", "y">> }    \* " failed: y"

\* what a node process may leave on stderr
Outcomes == { h \o t : h \in Heads, t \in Tails }

FileStates == {"present", "absent"}

\* ----------------------------------------------------------- pure helpers
\* str.replace("/", "-")
RECURSIVE Replace(_)
Replace(s) ==
    IF s = << >> THEN << >>
    ELSE <<(IF Head(s) = "/" THEN "-" ELSE Head(s))>> \o Replace(Tail(s))

FileNames == { Replace(t) : t \in TaskIds }

\* variant: str.startswith instead of a substring search
Contains_PrefixOnly(needle, haystack) ==
    /\ Len(needle) <= Len(haystack)
    /\ SubSeq(haystack, 1, Len(needle)) = needle

\* Python's  needle in haystack  for str
Contains(needle, haystack) ==
    \E i \in 0..(Len(haystack) - Len(needle)) :
        SubSeq(haystack, i + 1, i + Len(needle)) = needle

\* EvaluationResult()
NewResult == [total |-> 0, correct |-> 0, failed |-> 0, assertion_failed |-> 0]

\* EvaluationResult.exception_failed
exception_failed(r) == r.failed - r.assertion_failed

\* variant: total is incremented in the success branch only
update_counts_TotalOnSuccessOnly(r, error_message) ==
    IF Len(error_message) = 0
    THEN [r EXCEPT !.total = @ + 1, !.correct = @ + 1]
    ELSE LET r2 == [r EXCEPT !.failed = @ + 1] IN
         IF Contains(AssertionFailed, error_message)
         THEN [r2 EXCEPT !.assertion_failed = @ + 1]
         ELSE r2

\* variant: the assertion test is an elif beside the failed increment
update_counts_AssertionBesideFailed(r, error_message) ==
    LET r1 == [r EXCEPT !.total = @ + 1] IN
    IF Len(error_message) = 0
    THEN [r1 EXCEPT !.correct = @ + 1]
    ELSE IF Contains(AssertionFailed, error_message)
         THEN [r1 EXCEPT !.assertion_failed = @ + 1]
         ELSE [r1 EXCEPT !.failed = @ + 1]

\* EvaluationResult.update_counts
update_counts(r, error_message) ==
    LET r1 == [r EXCEPT !.total = @ + 1] IN
    IF Len(error_message) = 0
    THEN [r1 EXCEPT !.correct = @ + 1]
    ELSE LET r2 == [r1 EXCEPT !.failed = @ + 1] IN
         IF Contains(AssertionFailed, error_message)
         THEN [r2 EXCEPT !.assertion_failed = @ + 1]
         ELSE r2

\* Python's true division, with the factor 100 folded into the numerator:
\* an exact rational, or ZeroDivisionError
Divide(n, d) ==
    IF d = 0 THEN [error |-> TRUE, num |-> 0, den |-> 1]
    ELSE [error |-> FALSE, num |-> n, den |-> d]

Zero == [error |-> FALSE, num |-> 0, den |-> 1]

\* variant: the guard admits total == 0
PassRateGuard_NonNegative(r) == r.total >= 0

\* (x / y * 100) if guard else 0
PassRateGuard(r) == r.total > 0
ExceptionRateGuard(r) == r.failed > 0

pass_rate(r) ==
    IF PassRateGuard(r) THEN Divide(r.correct * 100, r.total) ELSE Zero

exception_rate(r) ==
    IF ExceptionRateGuard(r) THEN Divide(exception_failed(r) * 100, r.failed) ELSE Zero

\* the block print_summary writes
Report(m, r) ==
    [model |-> m, total |-> r.total, correct |-> r.correct, failed |-> r.failed,
     assertion_failed |-> r.assertion_failed,
     exception_failed |-> exception_failed(r),
     pass_rate |-> pass_rate(r), exception_rate |-> exception_rate(r)]

\* nothing printed yet
NoReport ==
    [model |-> "", total |-> 0, correct |-> 0, failed |-> 0,
     assertion_failed |-> 0, exception_failed |-> 0,
     pass_rate |-> Zero, exception_rate |-> Zero]

\* ------------------------------------------------------------------ state
VARIABLES
    LLM_MODELS,    \* configured list of model names
    dataset,       \* DATA_FILE on disk: [exists, rows]
    files,         \* candidate files on disk: [model, file name] -> state
    pc,            \* position of the single control thread
    df,            \* rows loaded by main
    llm,           \* index in LLM_MODELS of the model being evaluated
    row,           \* index in df of the row being processed
    results,       \* the EvaluationResult of the current evaluate_model call
    proc,          \* the node subprocess: "none", "running" or "hung"
    out,           \* what was printed: the number of error messages, warnings
                   \* and summaries, and the last summary
    calls,         \* bookkeeping: [evaluate, spawn, update] call counts
    visited,       \* rows iterated by the current evaluate_model call
    spawnedFor,    \* rows for which that call started a node process
    taskLog,       \* per class, how many tasks of the current call ended so
    raised         \* the exception that left main, "" if none

vars == <<LLM_MODELS, dataset, files, pc, df, llm, row, results,
          proc, out, calls, visited, spawnedFor, taskLog, raised>>

env == <<LLM_MODELS, dataset, files>>

RECURSIVE SeqsUpTo(_, _)
SeqsUpTo(S, n) ==
    IF n = 0 THEN { << >> }
    ELSE LET shorter == SeqsUpTo(S, n - 1) IN
         shorter \cup { Append(s, x) : s \in shorter, x \in S }

NoTasks == [c \in {"pass", "assertion", "exception"} |-> 0]

Init ==
    /\ LLM_MODELS \in SeqsUpTo(ModelNames, MaxModels)
    /\ dataset \in { [exists |-> FALSE, rows |-> << >>] } \cup
                   { [exists |-> TRUE, rows |-> rs] :
                         rs \in SeqsUpTo([task_id : TaskIds], MaxRows) }
    /\ files \in [ModelNames \X FileNames -> FileStates]
    \* only the files some task of the run looks for are told apart
    /\ \A m \in ModelNames, f \in FileNames :
          files[<<m, f>>] = "present" =>
             /\ \E i \in 1..Len(LLM_MODELS) : LLM_MODELS[i] = m
             /\ \E i \in 1..Len(dataset.rows) : Replace(dataset.rows[i].task_id) = f
    /\ pc = "main"
    /\ df = << >>
    /\ llm = 0
    /\ row = 0
    /\ results = NewResult
    /\ proc = "none"
    /\ out = [errors |-> 0, warnings |-> 0, summaries |-> 0, last |-> NoReport]
    /\ calls = [evaluate |-> 0, spawn |-> 0, update |-> 0]
    /\ visited = << >>
    /\ spawnedFor = << >>
    /\ taskLog = NoTasks
    /\ raised = ""

\* ---------------------------------------------------------------- actions
\* main: pd.read_json succeeds
LoadDataset ==
    /\ pc = "main"
    /\ dataset.exists
    /\ df' = dataset.rows
    /\ pc' = "models"
    /\ UNCHANGED <<env, llm, row, results, proc, out, calls,
                   visited, spawnedFor, taskLog, raised>>

\* variant: the handler prints but does not return
DatasetMissing_FallsThrough ==
    /\ pc = "main"
    /\ ~dataset.exists
    /\ out' = [out EXCEPT !.errors = @ + 1]
    /\ pc' = "models"
    /\ UNCHANGED <<env, df, llm, row, results, proc, calls,
                   visited, spawnedFor, taskLog, raised>>

\* main: pd.read_json raises FileNotFoundError
DatasetMissing ==
    /\ pc = "main"
    /\ ~dataset.exists
    /\ out' = [out EXCEPT !.errors = @ + 1]
    /\ pc' = "done"
    /\ UNCHANGED <<env, df, llm, row, results, proc, calls,
                   visited, spawnedFor, taskLog, raised>>

\* variant: one EvaluationResult shared by all models
BeginEvaluate_SharedResult ==
    /\ pc = "models"
    /\ llm < Len(LLM_MODELS)
    /\ llm' = llm + 1
    /\ row' = 0
    /\ visited' = << >>
    /\ spawnedFor' = << >>
    /\ taskLog' = NoTasks
    /\ calls' = [calls EXCEPT !.evaluate = @ + 1]
    /\ pc' = "rows"
    /\ UNCHANGED <<env, df, results, proc, out, raised>>

\* main: next iteration of  for llm in LLM_MODELS ; evaluate_model starts
BeginEvaluate ==
    /\ pc = "models"
    /\ llm < Len(LLM_MODELS)
    /\ llm' = llm + 1
    /\ results' = NewResult
    /\ row' = 0
    /\ visited' = << >>
    /\ spawnedFor' = << >>
    /\ taskLog' = NoTasks
    /\ calls' = [calls EXCEPT !.evaluate = @ + 1]
    /\ pc' = "rows"
    /\ UNCHANGED <<env, df, proc, out, raised>>

\* main: LLM_MODELS exhausted, main returns
Finish ==
    /\ pc = "models"
    /\ llm = Len(LLM_MODELS)
    /\ pc' = "done"
    /\ UNCHANGED <<env, df, llm, row, results, proc, out, calls,
                   visited, spawnedFor, taskLog, raised>>

\* file_path of the row being opened
FilePath(m, r) == <<LLM_MODELS[m], Replace(df[r].task_id)>>

\* variant: a missing candidate is counted as a failed task
SkipMissing_CountedAsFailure ==
    /\ pc = "rows"
    /\ row < Len(df)
    /\ files[FilePath(llm, row + 1)] = "absent"
    /\ row' = row + 1
    /\ visited' = Append(visited, row + 1)
    /\ out' = [out EXCEPT !.warnings = @ + 1]
    /\ results' = [results EXCEPT !.total = @ + 1, !.failed = @ + 1]
    /\ UNCHANGED <<env, pc, df, llm, proc, calls,
                   spawnedFor, taskLog, raised>>

\* evaluate_model: next row, file_path.open raises FileNotFoundError
SkipMissing ==
    /\ pc = "rows"
    /\ row < Len(df)
    /\ files[FilePath(llm, row + 1)] = "absent"
    /\ row' = row + 1
    /\ visited' = Append(visited, row + 1)
    /\ out' = [out EXCEPT !.warnings = @ + 1]
    /\ UNCHANGED <<env, pc, df, llm, results, proc, calls,
                   spawnedFor, taskLog, raised>>

\* evaluate_model: next row, the file is there but open or read raises an error
\* other than FileNotFoundError (PermissionError, UnicodeDecodeError), which
\* no handler catches
ReadFails ==
    /\ pc = "rows"
    /\ row < Len(df)
    /\ files[FilePath(llm, row + 1)] = "present"
    /\ row' = row + 1
    /\ visited' = Append(visited, row + 1)
    /\ pc' = "crashed"
    /\ raised' = "OSError"
    /\ UNCHANGED <<env, df, llm, results, proc, out, calls,
                   spawnedFor, taskLog>>

\* evaluate_model: next row, candidate read, test_code built
ReadCandidate ==
    /\ pc = "rows"
    /\ row < Len(df)
    /\ files[FilePath(llm, row + 1)] = "present"
    /\ row' = row + 1
    /\ visited' = Append(visited, row + 1)
    /\ pc' = "exec"
    /\ UNCHANGED <<env, df, llm, results, proc, out, calls,
                   spawnedFor, taskLog, raised>>

\* execute_js_test: subprocess.run starts node and waits for it
Spawn ==
    /\ pc = "exec"
    /\ proc' \in {"running", "hung"}
    /\ calls' = [calls EXCEPT !.spawn = @ + 1]
    /\ spawnedFor' = Append(spawnedFor, row)
    /\ pc' = "waiting"
    /\ UNCHANGED <<env, df, llm, row, results, out, visited,
                   taskLog, raised>>

\* execute_js_test: subprocess.run raises (node not found, argument too long)
SpawnFails ==
    /\ pc = "exec"
    /\ pc' = "crashed"
    /\ raised' = "OSError"
    /\ UNCHANGED <<env, df, llm, row, results, proc, out, calls,
                   visited, spawnedFor, taskLog>>

Classify(err) ==
    IF err = << >> THEN "pass"
    ELSE IF Contains(AssertionFailed, err) THEN "assertion" ELSE "exception"

\* variant: subprocess.run with a timeout that is swallowed
MayReturn_Timeout == proc \in {"running", "hung"}

\* subprocess.run may return only once the process has exited
MayReturn == proc = "running"

\* variant: the row loop is left at the first failing task
ProcessExit_AbortsOnFailure(err) ==
    /\ pc = "waiting"
    /\ MayReturn
    /\ proc' = "none"
    /\ results' = update_counts(results, err)
    /\ calls' = [calls EXCEPT !.update = @ + 1]
    /\ taskLog' = [taskLog EXCEPT ![Classify(err)] = @ + 1]
    /\ pc' = IF err = << >> THEN "rows" ELSE "summary"
    /\ UNCHANGED <<env, df, llm, row, out, visited, spawnedFor, raised>>

\* execute_js_test returns stderr; evaluate_model calls update_counts
ProcessExit(err) ==
    /\ pc = "waiting"
    /\ MayReturn
    /\ proc' = "none"
    /\ results' = update_counts(results, err)
    /\ calls' = [calls EXCEPT !.update = @ + 1]
    /\ taskLog' = [taskLog EXCEPT ![Classify(err)] = @ + 1]
    /\ pc' = "rows"
    /\ UNCHANGED <<env, df, llm, row, out, visited, spawnedFor, raised>>

\* evaluate_model: rows exhausted, return results
ReturnResults ==
    /\ pc = "rows"
    /\ row = Len(df)
    /\ pc' = "summary"
    /\ UNCHANGED <<env, df, llm, row, results, proc, out, calls, visited,
                   spawnedFor, taskLog, raised>>

\* print_summary
PrintSummary ==
    /\ pc = "summary"
    /\ LET rep == Report(LLM_MODELS[llm], results) IN
         IF rep.pass_rate.error \/ rep.exception_rate.error
         THEN pc' = "crashed" /\ raised' = "ZeroDivisionError" /\ out' = out
         ELSE pc' = "models" /\ raised' = raised
                /\ out' = [out EXCEPT !.summaries = @ + 1, !.last = rep]
    /\ UNCHANGED <<env, df, llm, row, results, proc, calls,
                   visited, spawnedFor, taskLog>>

Next ==
    \/ LoadDataset
    \/ DatasetMissing
    \/ BeginEvaluate
    \/ Finish
    \/ SkipMissing
    \/ ReadFails
    \/ ReadCandidate
    \/ Spawn
    \/ SpawnFails
    \/ \E err \in Outcomes : ProcessExit(err)
    \/ ReturnResults
    \/ PrintSummary

Spec == Init /\ [][Next]_vars

\* the single control thread keeps running whenever it can take a step
FairSpec == Spec /\ WF_vars(Next)

TypeOK ==
    /\ pc \in {"main", "models", "rows", "exec", "waiting", "summary", "done", "crashed"}
    /\ proc \in {"none", "running", "hung"}
    /\ llm \in 0..Len(LLM_MODELS)
    /\ row \in 0..Len(df)

\* ------------------------------------------------------------- properties
InEvaluate == pc \in {"rows", "exec", "waiting", "summary"}

Counters == {"total", "correct", "failed", "assertion_failed"}

\* the text has the literal somewhere: text = before + literal + after
HasMarker(text) ==
    \E i \in 0..Len(text) :
        SubSeq(text, 1, i) \o AssertionFailed
            \o SubSeq(text, i + Len(AssertionFailed) + 1, Len(text)) = text

\* the stderr texts that have the literal
TextsWithMarker == { e \in Outcomes : HasMarker(e) }

\* the counters that the outcomes of a model's own tasks should add up to
Tally(log) ==
    [total |-> log["pass"] + log["assertion"] + log["exception"],
     correct |-> log["pass"],
     failed |-> log["assertion"] + log["exception"],
     assertion_failed |-> log["assertion"]]

\* rows of df whose candidate file for model index m is on disk
PresentRows(m) ==
    SelectSeq([i \in 1..Len(df) |-> i],
              LAMBDA r : files[FilePath(m, r)] = "present")

\* C1: correct + failed == total in the initial state and after every
\* update_counts call, whatever the outcomes and skipped tasks.
C1_CountsAddUp == results.correct + results.failed = results.total

C1_Witness ==
    /\ results.correct >= 1
    /\ results.failed >= 1
    /\ out.warnings >= 1

\* C2: assertion_failed <= failed in every reachable state, and
\* exception_failed equals failed - assertion_failed and is never negative,
\* for the live result and for the printed summary.
C2_AssertionWithinFailed ==
    /\ results.assertion_failed <= results.failed
    /\ exception_failed(results) >= 0
    /\ exception_failed(results) + results.assertion_failed = results.failed
    /\ out.last.assertion_failed <= out.last.failed
    /\ out.last.exception_failed >= 0
    /\ out.last.exception_failed + out.last.assertion_failed = out.last.failed

C2_Witness ==
    /\ results.assertion_failed = 1
    /\ results.failed = 2

\* C3: when the candidate file of the next row does not exist, the step
\* prints one warning and moves to the next row; total, correct, failed and
\* assertion_failed stay as they are and no interpreter process is started.
C3_SkipLeavesCounters ==
    [][ ( /\ pc = "rows"
          /\ row < Len(df)
          /\ files[FilePath(llm, row + 1)] = "absent" )
        => ( /\ results' = results
             /\ calls' = calls
             /\ proc' = "none"
             /\ spawnedFor' = spawnedFor
             /\ out' = [out EXCEPT !.warnings = @ + 1]
             /\ row' = row + 1
             /\ pc' = "rows" ) ]_vars

C3_Witness ==
    /\ pc = "rows"
    /\ out.warnings >= 1
    /\ results.total >= 1
    /\ row = 2
    /\ files[FilePath(llm, row)] = "absent"

\* C4: one update_counts call adds exactly 1 to total and correct for an
\* empty outcome; 1 to total, failed and assertion_failed for an outcome that
\* has "Assertion failed" anywhere (case-sensitive); 1 to total and failed
\* only for any other non-empty outcome, so exception_failed rises by 1.
C4_Classification ==
    [][ calls'.update # calls.update =>
          /\ \E e \in Outcomes : ProcessExit(e)
          /\ \A e \in Outcomes :
                ProcessExit(e) =>
                  LET d == [f \in Counters |-> results'[f] - results[f]] IN
                  /\ d.total = 1
                  /\ e = << >> =>
                        d.correct = 1 /\ d.failed = 0 /\ d.assertion_failed = 0
                  /\ (e # << >> /\ e \in TextsWithMarker) =>
                        d.correct = 0 /\ d.failed = 1 /\ d.assertion_failed = 1
                  /\ (e # << >> /\ e \notin TextsWithMarker) =>
                        /\ d.correct = 0 /\ d.failed = 1 /\ d.assertion_failed = 0
                        /\ exception_failed(results')
                              = exception_failed(results) + 1
      ]_vars

C4_Witness ==
    /\ calls.update = 2
    /\ results.assertion_failed = 1
    /\ exception_failed(results) = 1
    /\ results.correct = 0

\* C5: with the dataset file missing, main prints one error message and
\* returns normally; evaluate_model is never called, no process is spawned
\* and no summary is printed.
C5_DatasetMissingStops ==
    ~dataset.exists =>
        /\ pc \in {"main", "done"}
        /\ pc = "done" => out.errors = 1
        /\ raised = ""
        /\ calls = [evaluate |-> 0, spawn |-> 0, update |-> 0]
        /\ proc = "none"
        /\ out.summaries = 0
        /\ out.warnings = 0

C5_Witness ==
    /\ ~dataset.exists
    /\ pc = "done"
    /\ Len(LLM_MODELS) >= 1
    /\ out.errors = 1

\* C6: no exception escapes main; the only condition that stops the run
\* before all models and tasks are processed is the missing dataset file.
C6_NoExceptionEscapes ==
    /\ raised = ""
    /\ pc # "crashed"
    /\ (pc = "done" /\ dataset.exists) => out.summaries = Len(LLM_MODELS)

\* C7: an execution failure is counted and never ends the row loop: the
\* rows are visited once each in dataset order, every row whose candidate
\* file exists gets one process and then one update_counts call, and the
\* returned total is the number of rows whose candidate file exists.
C7_EveryPresentRowCounted ==
    InEvaluate =>
        /\ visited = [i \in 1..row |-> i]
        /\ spawnedFor =
              SelectSeq(visited,
                        LAMBDA r : /\ files[FilePath(llm, r)] = "present"
                                   /\ ~(pc = "exec" /\ r = row))
        /\ results.total = Len(spawnedFor) - (IF pc = "waiting" THEN 1 ELSE 0)
        /\ Tally(taskLog).total = results.total
        /\ Tally(taskLog).failed = results.failed
        /\ (proc # "none") <=> (pc = "waiting")
        /\ pc = "summary" =>
              /\ row = Len(df)
              /\ spawnedFor = PresentRows(llm)
              /\ results.total = Len(PresentRows(llm))

C7_Witness ==
    /\ pc = "summary"
    /\ Len(df) = 2
    /\ results.failed = 1
    /\ results.correct = 1
    /\ spawnedFor = <<1, 2>>

\* C8 as stated: once main has ended, exactly one summary per configured
\* model has been printed.
C8_EndsWithAllSummaries ==
    pc \in {"done", "crashed"} => out.summaries = Len(LLM_MODELS)

\* C8 (amended): a task blocks the run until its process exits.  If every
\* spawned process exits, main ends (by returning or by an escaping
\* exception), and when it returns with the dataset loaded it has printed
\* exactly one summary per configured model, the last one for the last
\* model.  While a process runs the only step is its exit followed by
\* update_counts; if a process never exits nothing changes again.
C8_BlocksUntilExit ==
    /\ <>(pc \in {"done", "crashed"} \/ proc = "hung")
    /\ [](pc = "done" =>
            IF dataset.exists
            THEN /\ out.summaries = Len(LLM_MODELS)
                 /\ out.summaries > 0 =>
                       out.last.model = LLM_MODELS[Len(LLM_MODELS)]
            ELSE out.summaries = 0)
    /\ [][ pc = "waiting" =>
             /\ proc = "running"
             /\ proc' = "none"
             /\ pc' = "rows"
             /\ calls'.update = calls.update + 1 ]_vars
    /\ [][ proc # "hung" ]_vars

C8_Witness ==
    /\ proc = "hung"
    /\ pc = "waiting"
    /\ llm = 2
    /\ out.summaries = 1
    /\ results.total = 1

\* C9: models are evaluated one at a time in list order; each result starts
\* at zero and holds exactly the tally of that model's own task outcomes,
\* and the summary of a model is printed after its last task and before the
\* next model's first task.
C9_ModelsIndependent ==
    /\ [](InEvaluate => /\ out.summaries = llm - 1
                         /\ results = Tally(taskLog))
    /\ [](pc \in {"models", "done"} => out.summaries = llm)
    /\ [][ llm' # llm =>
              /\ llm' = llm + 1
              /\ results' = NewResult
              /\ row' = 0 ]_vars
    /\ [][ (out'.summaries # out.summaries \/ out'.last # out.last) =>
              /\ pc = "summary"
              /\ row = Len(df)
              /\ pc' = "models"
              /\ out'.summaries = out.summaries + 1
              /\ out'.last.model = LLM_MODELS[llm]
              /\ [f \in Counters |-> out'.last[f]] = Tally(taskLog) ]_vars

C9_Witness ==
    /\ out.summaries = 1
    /\ out.last.failed = 2
    /\ pc = "summary"
    /\ llm = 2
    /\ results.correct = 1
    /\ results.total = 1

\* C10: print_summary never divides by zero; the pass rate is 0 when
\* total == 0 and correct/total*100 otherwise, the exception rate is 0 when
\* failed == 0 and exception_failed/failed*100 otherwise, and both lie
\* between 0 and 100.
C10_RatesDefined ==
    /\ raised # "ZeroDivisionError"
    /\ LET r == out.last IN
          /\ ~r.pass_rate.error
          /\ ~r.exception_rate.error
          /\ r.pass_rate.den > 0
          /\ r.exception_rate.den > 0
          /\ r.pass_rate.num * (IF r.total = 0 THEN 1 ELSE r.total)
                = (IF r.total = 0 THEN 0 ELSE r.correct * 100) * r.pass_rate.den
          /\ r.exception_rate.num * (IF r.failed = 0 THEN 1 ELSE r.failed)
                = (IF r.failed = 0 THEN 0 ELSE r.exception_failed * 100)
                     * r.exception_rate.den
          /\ 0 <= r.pass_rate.num
          /\ r.pass_rate.num <= 100 * r.pass_rate.den
          /\ 0 <= r.exception_rate.num
          /\ r.exception_rate.num <= 100 * r.exception_rate.den

C10_Witness ==
    /\ out.summaries = 2
    /\ out.last.total = 0
    /\ out.last.model = "m2"
    /\ Len(df) = 2
====
